---- MODULE Spec2Model ----
(***************************************************************************)
(* Model of the bookbinding imposition program (src/main.rs): the driver   *)
(* `main`, the page-store helper `add_pages`, the signature partitioner    *)
(* `arrange_pages_with` and the sheet imposer `signature_with`.            *)
(*                                                                         *)
(* Four specifications share the variables:                                *)
(*   SpecSignature  one call signature_with(start, num_sheets, with)       *)
(*   SpecArrange    one call arrange_pages_with(num_pages, params, with)   *)
(*   Spec           one run of main, callbacks applied as the code does    *)
(*   SpecConcurrent one run of main, the placements applied by independent *)
(*                  workers in any order                                   *)
(***************************************************************************)
EXTENDS Integers, Sequences, FiniteSets, TLC

\* ------------------------------------------------------------------ bounds
\* largest num_pages handed to arrange_pages_with in SpecArrange
MaxPages == 40
\* largest params.signature_size
MaxSig == 6
\* largest params.minimum_remainder_size
MaxMin == 4
\* largest start / num_sheets handed to signature_with in SpecSignature
MaxStart == 6
MaxSheets == 5
\* largest page count of the input document, and largest parameters, in the
\* driver specifications
MaxDocPages == 5
MaxDocSig == 2
MaxDocMin == 1

VARIABLES
    pc,                  \* position of the running function
    \* --- signature_with's frame
    sw_start,            \* parameter start
    sw_sheets,           \* parameter num_sheets
    sw_i,                \* loop variable i
    \* --- arrange_pages_with's frame
    arr_num_pages,       \* parameter num_pages
    params,              \* SignatureParams (signature_size, minimum_remainder_size)
    pages_per_signature,
    num_signatures,
    remainder,
    sig,                 \* loop variable sig
    \* --- effects of the core
    calls,               \* the calls of signature_with so far: <<start, num_sheets>>
    emitted,             \* the calls of the callback so far: <<src, dest>>
    stdout,              \* the numbers printed by println!
    \* --- main's frame
    end_pages,           \* args.end_pages
    document,            \* the lopdf Document: objects by id, max_id
    num_pages,           \* main's local num_pages (line 38)
    pages,               \* main's snapshot `pages`: sequence of [id, obj]
    \* --- any-order application of the placements
    pending,             \* indices into emitted not yet applied
    writes,              \* destination index -> number of set_object calls on it
    observed,            \* index into emitted -> the object the placement read
    reordered            \* a placement was applied before an earlier-emitted one

sigVars == <<sw_start, sw_sheets, sw_i>>
arrVars == <<arr_num_pages, params, pages_per_signature, num_signatures, remainder, sig>>
outVars == <<calls, emitted, stdout>>
docVars == <<end_pages, document, num_pages, pages>>
concVars == <<pending, writes, observed, reordered>>
vars == <<pc, sigVars, arrVars, outVars, docVars, concVars>>

\* ------------------------------------------------------------ signature_with
\* mutants of SheetPlacements: the fourth placement written to the third's slot;
\* the second and third callback invocations swapped; the two back pages
\* (end - (s+1), end - (s+2)) swapped
SheetPlacementsSameSlot(start, end, i) ==
    LET s == i * 2
        dest == start + i * 4
    IN  << <<end - (s + 1), dest>>,
           <<start + s, dest + 1>>,
           <<start + s + 1, dest + 2>>,
           <<end - (s + 2), dest + 2>> >>
SheetPlacementsReordered(start, end, i) ==
    LET s == i * 2
        dest == start + i * 4
    IN  << <<end - (s + 1), dest>>,
           <<start + s + 1, dest + 2>>,
           <<start + s, dest + 1>>,
           <<end - (s + 2), dest + 3>> >>
SheetPlacementsBackSwapped(start, end, i) ==
    LET s == i * 2
        dest == start + i * 4
    IN  << <<end - (s + 2), dest>>,
           <<start + s, dest + 1>>,
           <<start + s + 1, dest + 2>>,
           <<end - (s + 1), dest + 3>> >>

\* the four callback invocations of loop iteration i (lines 147-152)
SheetPlacements(start, end, i) ==
    LET s == i * 2
        dest == start + i * 4
    IN  << <<end - (s + 1), dest>>,
           <<start + s, dest + 1>>,
           <<start + s + 1, dest + 2>>,
           <<end - (s + 2), dest + 3>> >>

\* end = start + num_sheets * 4 (lines 144-145)
SignatureEnd(start, sheets) == start + sheets * 4

RECURSIVE SignatureFrom(_, _, _)
\* iterations i, i+1, ..., sheets-1 of the loop of signature_with
SignatureFrom(start, sheets, i) ==
    IF i >= sheets THEN <<>>
    ELSE SheetPlacements(start, SignatureEnd(start, sheets), i)
            \o SignatureFrom(start, sheets, i + 1)

\* the sequence of callback invocations of one call signature_with(start, sheets, with)
signature_with(start, sheets) == SignatureFrom(start, sheets, 0)

\* ------------------------------------------------------- arrange_pages_with
\* usize::div_ceil
div_ceil(a, b) == (a + b - 1) \div b

\* mutants of MergeRemainder: `<` for `<=`; the test `remainder > 0` forgotten
MergeRemainderStrict(rem, minimum_remainder_size, nsigs) ==
    rem > 0 /\ rem < minimum_remainder_size * 4 /\ nsigs >= 1
MergeRemainderOfZero(rem, minimum_remainder_size, nsigs) ==
    rem <= minimum_remainder_size * 4 /\ nsigs >= 1

\* the condition of line 124
MergeRemainder(rem, minimum_remainder_size, nsigs) ==
    rem > 0 /\ rem <= minimum_remainder_size * 4 /\ nsigs >= 1

\* mutant of Partition: the merge forgets `remainder += pages_per_signature`
PartitionDropsSignature(n, p) ==
    LET pps == p.signature_size * 4
        nsigs == n \div pps
        rem == n - nsigs * pps
    IN  IF MergeRemainder(rem, p.minimum_remainder_size, nsigs)
        THEN [pages_per_signature |-> pps, num_signatures |-> nsigs - 1,
              remainder |-> rem]
        ELSE [pages_per_signature |-> pps, num_signatures |-> nsigs,
              remainder |-> rem]

\* lines 119-127: the values of num_signatures and remainder at line 128
Partition(n, p) ==
    LET pps == p.signature_size * 4
        nsigs == n \div pps
        rem == n - nsigs * pps
    IN  IF MergeRemainder(rem, p.minimum_remainder_size, nsigs)
        THEN [pages_per_signature |-> pps, num_signatures |-> nsigs - 1,
              remainder |-> rem + pps]
        ELSE [pages_per_signature |-> pps, num_signatures |-> nsigs,
              remainder |-> rem]

\* mutant of FinalSheets: `/` for div_ceil
FinalSheetsFloor(rem) == rem \div 4

\* the number of sheets of the final call (line 133)
FinalSheets(rem) == div_ceil(rem, 4)

RECURSIVE FullSignatureCalls(_, _, _)
\* the calls of the loop of lines 128-130, from iteration s on
FullSignatureCalls(s, part, p) ==
    IF s >= part.num_signatures THEN <<>>
    ELSE << <<s * part.pages_per_signature, p.signature_size>> >>
            \o FullSignatureCalls(s + 1, part, p)

\* every call of signature_with made by arrange_pages_with(n, p, with), in order
SignatureCalls(n, p) ==
    LET part == Partition(n, p)
    IN  FullSignatureCalls(0, part, p)
            \o << <<part.num_signatures * part.pages_per_signature,
                    FinalSheets(part.remainder)>> >>

RECURSIVE PlacementsOf(_)
\* the callback invocations of a sequence of signature_with calls
PlacementsOf(cs) ==
    IF cs = <<>> THEN <<>>
    ELSE signature_with(Head(cs)[1], Head(cs)[2]) \o PlacementsOf(Tail(cs))

\* every callback invocation of arrange_pages_with(n, p, with), in order
arrange_pages_with(n, p) == PlacementsOf(SignatureCalls(n, p))

RECURSIVE PrintedBy(_)
\* what the calls print: println!("{}", start + 1) (line 143)
PrintedBy(cs) ==
    IF cs = <<>> THEN <<>> ELSE <<Head(cs)[1] + 1>> \o PrintedBy(Tail(cs))

\* ------------------------------------------------- values of unused frames
NoParams == [signature_size |-> 1, minimum_remainder_size |-> 0]
NoDocument == [objects |-> <<>>, max_id |-> 0]

IdleSig == sw_start = 0 /\ sw_sheets = 0 /\ sw_i = 0
IdleArr ==
    /\ arr_num_pages = 0 /\ params = NoParams /\ pages_per_signature = 0
    /\ num_signatures = 0 /\ remainder = 0 /\ sig = 0
IdleOut == calls = <<>> /\ emitted = <<>> /\ stdout = <<>>
IdleDoc == end_pages = FALSE /\ document = NoDocument /\ num_pages = 0 /\ pages = <<>>
IdleConc == pending = {} /\ writes = <<>> /\ observed = <<>> /\ reordered = FALSE

\* ===================================================== SpecSignature
\* one call signature_with(start, num_sheets, with), the callback recording
\* its arguments (as the test `signature` does)
InitSignature ==
    /\ pc = "signature_with"
    /\ sw_start \in 0..MaxStart
    /\ sw_sheets \in 0..MaxSheets
    /\ sw_i = 0
    /\ IdleArr /\ IdleOut /\ IdleDoc /\ IdleConc

\* lines 143-145: the println and the loop's setup
SigEnter ==
    /\ pc = "signature_with"
    /\ stdout' = Append(stdout, sw_start + 1)
    /\ calls' = Append(calls, <<sw_start, sw_sheets>>)
    /\ sw_i' = 0
    /\ pc' = "signature_loop"
    /\ UNCHANGED <<sw_start, sw_sheets, emitted, arrVars, docVars, concVars>>

\* lines 146-153: one iteration of the loop
SigSheet ==
    /\ pc = "signature_loop"
    /\ sw_i < sw_sheets
    /\ emitted' = emitted \o SheetPlacements(sw_start, SignatureEnd(sw_start, sw_sheets), sw_i)
    /\ sw_i' = sw_i + 1
    /\ UNCHANGED <<pc, sw_start, sw_sheets, calls, stdout, arrVars, docVars, concVars>>

\* line 154: the loop is exhausted
SigReturn ==
    /\ pc = "signature_loop"
    /\ sw_i >= sw_sheets
    /\ pc' = "signature_returned"
    /\ UNCHANGED <<sigVars, outVars, arrVars, docVars, concVars>>

NextSignature == SigEnter \/ SigSheet \/ SigReturn

SpecSignature == InitSignature /\ [][NextSignature]_vars

\* ======================================================= SpecArrange
\* one call arrange_pages_with(num_pages, params, with), the callback recording
\* its arguments (as the test `arrange_pages` does)
InitArrange ==
    /\ pc = "arrange_pages_with"
    /\ arr_num_pages \in 0..MaxPages
    /\ params \in [signature_size : 1..MaxSig, minimum_remainder_size : 0..MaxMin]
    /\ pages_per_signature = 0 /\ num_signatures = 0 /\ remainder = 0 /\ sig = 0
    /\ IdleSig /\ IdleOut /\ IdleDoc /\ IdleConc

\* lines 119-127
ArrPartition ==
    /\ pc = "arrange_pages_with"
    /\ LET part == Partition(arr_num_pages, params)
       IN  /\ pages_per_signature' = part.pages_per_signature
           /\ num_signatures' = part.num_signatures
           /\ remainder' = part.remainder
    /\ sig' = 0
    /\ pc' = "arrange_loop"
    /\ UNCHANGED <<arr_num_pages, params, sigVars, outVars, docVars, concVars>>

\* the effect of one call signature_with(start, sheets, &mut with) on the outputs
CallSignature(start, sheets) ==
    /\ calls' = Append(calls, <<start, sheets>>)
    /\ stdout' = Append(stdout, start + 1)
    /\ emitted' = emitted \o signature_with(start, sheets)

\* lines 128-130: one iteration of the loop over the full signatures
ArrFullSignature ==
    /\ pc = "arrange_loop"
    /\ sig < num_signatures
    /\ CallSignature(sig * pages_per_signature, params.signature_size)
    /\ sig' = sig + 1
    /\ UNCHANGED <<pc, arr_num_pages, params, pages_per_signature, num_signatures,
                   remainder, sigVars, docVars, concVars>>

\* lines 131-135: the final signature
ArrFinalSignature ==
    /\ pc = "arrange_loop"
    /\ sig >= num_signatures
    /\ CallSignature(num_signatures * pages_per_signature, FinalSheets(remainder))
    /\ pc' = "arrange_returned"
    /\ UNCHANGED <<arrVars, sigVars, docVars, concVars>>

NextArrange == ArrPartition \/ ArrFullSignature \/ ArrFinalSignature

SpecArrange == InitArrange /\ [][NextArrange]_vars

\* ============================================================== the driver
\* ---- the lopdf Document, as far as main and add_pages use it: the objects by
\* ---- id (ids 1 .. max_id), the page tree's root being object 1
PageTreeId == 1
NullObject == [Type |-> "Null"]

\* a loaded document of n pages, all directly under the root of the page tree
InputDocument(n) ==
    [objects |-> <<[Type |-> "Pages", Kids |-> [k \in 1..n |-> k + 1], Count |-> n]>>
                    \o [k \in 1..n |-> [Type |-> "Page", Parent |-> PageTreeId, Contents |-> k]],
     max_id |-> n + 1]

RECURSIVE PagesUnder(_, _)
\* the pages below the nodes ids, in document order
PagesUnder(objs, ids) ==
    IF ids = <<>> THEN <<>>
    ELSE LET h == objs[Head(ids)]
         IN  (CASE h.Type = "Pages" -> PagesUnder(objs, h.Kids)
                [] h.Type = "Page" -> <<Head(ids)>>
                [] OTHER -> <<>>)
             \o PagesUnder(objs, Tail(ids))

\* document.page_iter(): the ids of the pages in order
page_iter(doc) == PagesUnder(doc.objects, doc.objects[PageTreeId].Kids)

RECURSIVE CountUnder(_, _)
CountUnder(objs, ids) ==
    IF ids = <<>> THEN 0
    ELSE LET h == objs[Head(ids)]
         IN  (IF h.Type = "Pages" THEN h.Count ELSE 1) + CountUnder(objs, Tail(ids))

\* document.page_iter().size_hint().0: the Count of every node under the root,
\* 1 for every other kid
size_hint(doc) == CountUnder(doc.objects, doc.objects[PageTreeId].Kids)

\* document.add_object(obj): the object gets the id max_id + 1
add_object(doc, obj) == [objects |-> Append(doc.objects, obj), max_id |-> doc.max_id + 1]

\* document.set_object(id, obj)
set_object(doc, id, obj) == [doc EXCEPT !.objects[id] = obj]

\* dict.remove(key)
Without(dict, key) == [f \in DOMAIN dict \ {key} |-> dict[f]]

RECURSIVE AddCopies(_, _, _)
\* (0..count).map(|_| document.add_object(page.clone())) (lines 81-83)
AddCopies(doc, page, count) ==
    IF count = 0 THEN doc ELSE AddCopies(add_object(doc, page), page, count - 1)

\* add_pages panics on a document without pages (lines 59-62)
CanAddPages(doc) == page_iter(doc) # <<>>

\* add_pages(document, count, at_start) (lines 55-109), for a document with pages
add_pages(doc, count, at_start) ==
    LET page == Without(doc.objects[page_iter(doc)[1]], "Contents")
        new_node_id == doc.max_id + 1
        doc1 == add_object(doc, NullObject)
        doc2 == IF count = 1
                THEN set_object(doc1, new_node_id, [page EXCEPT !.Parent = PageTreeId])
                ELSE LET child == [page EXCEPT !.Parent = new_node_id]
                         doc1b == AddCopies(doc1, child, count)
                         new_pages == [k \in 1..count |-> new_node_id + k]
                     IN  set_object(doc1b, new_node_id,
                             [Type |-> "Pages", Parent |-> PageTreeId,
                              Kids |-> new_pages, Count |-> count])
        tree == doc2.objects[PageTreeId]
    IN  IF count = 0 THEN doc1
        ELSE set_object(doc2, PageTreeId,
                 [tree EXCEPT !.Count = @ + count,
                              !.Kids = IF at_start THEN <<new_node_id>> \o @
                                       ELSE Append(@, new_node_id)])

\* the number of pages the padding step adds (line 39)
PadCount(n) == 4 - (n % 4)

\* mutant of SourceObject: the source is read from the document being rewritten
SourceObjectLive(doc, pgs, src) == doc.objects[pgs[src + 1].id]

\* pages[src].1.clone() (line 45): the source comes from the snapshot
SourceObject(doc, pgs, src) == pgs[src + 1].obj

\* the closure of lines 44-48
Callback(doc, pgs, src, dest) ==
    set_object(doc, pgs[dest + 1].id, SourceObject(doc, pgs, src))

RECURSIVE ApplyInOrder(_, _, _)
\* the closure called on every placement of ps, in order
ApplyInOrder(doc, pgs, ps) ==
    IF ps = <<>> THEN doc
    ELSE ApplyInOrder(Callback(doc, pgs, Head(ps)[1], Head(ps)[2]), pgs, Tail(ps))

\* ================================================================== Spec
\* one run of main
Init ==
    /\ pc = "main"
    /\ end_pages \in BOOLEAN
    /\ params \in [signature_size : 1..MaxDocSig, minimum_remainder_size : 0..MaxDocMin]
    /\ \E n \in 0..MaxDocPages : document = InputDocument(n)
    /\ num_pages = 0 /\ pages = <<>>
    /\ arr_num_pages = 0 /\ pages_per_signature = 0 /\ num_signatures = 0
    /\ remainder = 0 /\ sig = 0
    /\ IdleSig /\ IdleOut /\ IdleConc

\* lines 34-37
MainEndPages ==
    /\ pc = "main"
    /\ end_pages => CanAddPages(document)
    /\ document' = IF end_pages
                   THEN add_pages(add_pages(document, 1, TRUE), 1, FALSE)
                   ELSE document
    /\ pc' = "pad"
    /\ UNCHANGED <<end_pages, num_pages, pages, sigVars, arrVars, outVars, concVars>>

\* lines 38-39
MainPad ==
    /\ pc = "pad"
    /\ CanAddPages(document)
    /\ num_pages' = size_hint(document)
    /\ document' = add_pages(document, PadCount(num_pages'), FALSE)
    /\ pc' = "snapshot"
    /\ UNCHANGED <<end_pages, pages, sigVars, arrVars, outVars, concVars>>

\* the expect of line 62 fails: the document has no pages
MainPanic ==
    /\ \/ pc = "main" /\ end_pages
       \/ pc = "pad"
    /\ ~CanAddPages(document)
    /\ pc' = "panicked"
    /\ UNCHANGED <<docVars, sigVars, arrVars, outVars, concVars>>

\* lines 40-43
MainSnapshot ==
    /\ pc = "snapshot"
    /\ pages' = LET ids == page_iter(document)
                IN  [k \in 1..Len(ids) |-> [id |-> ids[k], obj |-> document.objects[ids[k]]]]
    /\ pc' = "arrange"
    /\ UNCHANGED <<end_pages, document, num_pages, sigVars, arrVars, outVars, concVars>>

\* lines 44-48: arrange_pages_with(pages.len(), args.signature_params, closure)
MainArrange ==
    /\ pc = "arrange"
    /\ arr_num_pages' = Len(pages)
    /\ LET part == Partition(Len(pages), params)
       IN  /\ pages_per_signature' = part.pages_per_signature
           /\ num_signatures' = part.num_signatures
           /\ remainder' = part.remainder
           /\ sig' = part.num_signatures
    /\ calls' = SignatureCalls(Len(pages), params)
    /\ stdout' = PrintedBy(calls')
    /\ emitted' = arrange_pages_with(Len(pages), params)
    /\ document' = ApplyInOrder(document, pages, emitted')
    /\ pc' = "save"
    /\ UNCHANGED <<params, end_pages, num_pages, pages, sigVars, concVars>>

\* lines 49-50
MainSave ==
    /\ pc = "save"
    /\ pc' = "done"
    /\ UNCHANGED <<docVars, sigVars, arrVars, outVars, concVars>>

Next == MainEndPages \/ MainPad \/ MainPanic \/ MainSnapshot \/ MainArrange \/ MainSave

Spec == Init /\ [][Next]_vars

\* ======================================================== SpecConcurrent
\* one run of main in which the placements computed by arrange_pages_with are
\* handed to independent workers, each applying the closure of lines 44-48 to
\* one placement, in any order
ConcArrange ==
    /\ pc = "arrange"
    /\ arr_num_pages' = Len(pages)
    /\ LET part == Partition(Len(pages), params)
       IN  /\ pages_per_signature' = part.pages_per_signature
           /\ num_signatures' = part.num_signatures
           /\ remainder' = part.remainder
           /\ sig' = part.num_signatures
    /\ calls' = SignatureCalls(Len(pages), params)
    /\ stdout' = PrintedBy(calls')
    /\ emitted' = arrange_pages_with(Len(pages), params)
    /\ pending' = 1..Len(emitted')
    /\ writes' = [d \in 0..(Len(pages) - 1) |-> 0]
    /\ observed' = <<>>
    /\ pc' = "apply"
    /\ UNCHANGED <<params, docVars, sigVars, reordered>>

\* a worker applies placement k
ConcApply(k) ==
    /\ pc = "apply"
    /\ k \in pending
    /\ LET src == emitted[k][1]
           dest == emitted[k][2]
       IN  /\ document' = Callback(document, pages, src, dest)
           /\ observed' = (k :> SourceObject(document, pages, src)) @@ observed
           /\ writes' = [writes EXCEPT ![dest] = @ + 1]
    /\ pending' = pending \ {k}
    /\ reordered' = (reordered \/ \E j \in pending : j < k)
    /\ UNCHANGED <<pc, end_pages, num_pages, pages, sigVars, arrVars, outVars>>

\* every placement is applied: document.save (lines 49-50)
ConcSave ==
    /\ pc = "apply"
    /\ pending = {}
    /\ pc' = "done"
    /\ UNCHANGED <<docVars, sigVars, arrVars, outVars, concVars>>

NextConcurrent ==
    \/ MainEndPages \/ MainPad \/ MainPanic \/ MainSnapshot
    \/ ConcArrange
    \/ \E k \in pending : ConcApply(k)
    \/ ConcSave

SpecConcurrent == Init /\ [][NextConcurrent]_vars

\* ============================================================ properties
\* helpers of the properties: what the recorded outputs say
Dests == {emitted[k][2] : k \in 1..Len(emitted)}
Sources == {emitted[k][1] : k \in 1..Len(emitted)}
\* how many placements name destination d / source x
TimesWritten(d) == Cardinality({k \in 1..Len(emitted) : emitted[k][2] = d})
TimesRead(x) == Cardinality({k \in 1..Len(emitted) : emitted[k][1] = x})
\* the source written to destination d
SourceAt(d) == emitted[CHOOSE k \in 1..Len(emitted) : emitted[k][2] = d][1]
LastCall == calls[Len(calls)]
RECURSIVE PagesOfCalls(_)
PagesOfCalls(cs) == IF cs = <<>> THEN 0 ELSE Head(cs)[2] * 4 + PagesOfCalls(Tail(cs))
RoundUp4(n) == IF n % 4 = 0 THEN n ELSE n + (4 - (n % 4))
\* the values of the partition before the merge check, computed from the inputs
NaturalFull == arr_num_pages \div (params.signature_size * 4)
NaturalRem == arr_num_pages - NaturalFull * params.signature_size * 4
ArrangeReturned == pc = "arrange_returned"
MultipleOf4 == arr_num_pages % 4 = 0

\* C1 (totality): for num_pages a multiple of 4, no destination index is ever
\* emitted twice or out of range, and when arrange_pages_with has returned each
\* of 0 .. num_pages-1 has been emitted exactly once.
C1_Totality ==
    MultipleOf4 =>
        /\ \A k \in 1..Len(emitted) : emitted[k][2] \in 0..(arr_num_pages - 1)
        /\ \A d \in Dests : TimesWritten(d) = 1
        /\ ArrangeReturned =>
              /\ Len(emitted) = arr_num_pages
              /\ Dests = 0..(arr_num_pages - 1)

\* a complete run over 40 pages with a merged final signature (6 + 4 sheets)
C1_Witness ==
    /\ ArrangeReturned /\ arr_num_pages = 40
    /\ params.signature_size = 6 /\ params.minimum_remainder_size = 4
    /\ Len(calls) = 1 /\ Dests = 0..39

\* C2 (partition exhaustiveness): for num_pages a multiple of 4, the calls of
\* signature_with start at 0, each next one starts where the previous one's
\* sheets*4 pages end, the starts increase, and on return the sheets*4 of all
\* calls sum to num_pages.
C2_PartitionExhaustive ==
    MultipleOf4 =>
        /\ Len(calls) >= 1 => calls[1][1] = 0
        /\ \A k \in 1..(Len(calls) - 1) :
              /\ calls[k + 1][1] = calls[k][1] + calls[k][2] * 4
              /\ calls[k + 1][1] > calls[k][1]
        /\ ArrangeReturned => PagesOfCalls(calls) = arr_num_pages

\* a run with two full signatures and a merged, overlong final one
C2_Witness ==
    /\ ArrangeReturned /\ MultipleOf4 /\ Len(calls) = 3
    /\ LastCall[2] > params.signature_size
    /\ PagesOfCalls(calls) = arr_num_pages

C3_WitnessNoMerge ==
    /\ ArrangeReturned /\ arr_num_pages = 40
    /\ params.signature_size = 5 /\ params.minimum_remainder_size = 4
    /\ Len(calls) = 3 /\ LastCall[2] = 0

\* C6 (source coverage for any page count): for every num_pages, no source
\* index is emitted twice, and on return the number of distinct source indices
\* is num_pages rounded up to the next multiple of 4.
C6_SourceCoverage ==
    /\ \A x \in Sources : TimesRead(x) = 1
    /\ ArrangeReturned => Cardinality(Sources) = RoundUp4(arr_num_pages)

\* the test case (26, 5) with minimum_remainder_size = 4: 28 distinct sources
C6_Witness ==
    /\ ArrangeReturned /\ arr_num_pages = 26
    /\ params.signature_size = 5 /\ params.minimum_remainder_size = 4
    /\ Cardinality(Sources) = 28

\* C7 (as claimed): with at least one full signature, the remainder is merged
\* into the previous signature exactly when it is non-zero and has fewer sheets
\* than minimum_remainder_size; a remainder of exactly minimum_remainder_size
\* sheets stands alone.
C7_MergeOnlyBelowMinimum ==
    (ArrangeReturned /\ MultipleOf4 /\ NaturalFull >= 1) =>
        ((LastCall[2] > params.signature_size)
            <=> (NaturalRem > 0 /\ NaturalRem \div 4 < params.minimum_remainder_size))

\* C9 (as claimed): the full signatures are followed by exactly one final
\* signature, whose sheet count is 0 only when num_pages is 0.
C9_FinalEmptyOnlyForEmptyDocument ==
    (ArrangeReturned /\ MultipleOf4) =>
        /\ Len(calls) = num_signatures + 1
        /\ \A k \in 1..num_signatures : calls[k][2] = params.signature_size
        /\ LastCall[2] = 0 => arr_num_pages = 0

\* C9 (amended): the full signatures are followed by exactly one final
\* signature, whose sheet count is 0 exactly when num_pages is a multiple of
\* signature_size*4 (num_pages = 0 included).
C9_FinalEmptyIffWholeSignatures ==
    (ArrangeReturned /\ MultipleOf4) =>
        /\ Len(calls) = num_signatures + 1
        /\ \A k \in 1..num_signatures : calls[k][2] = params.signature_size
        /\ LastCall[2] = 0 <=> arr_num_pages % (params.signature_size * 4) = 0

\* a non-empty document whose final signature has no sheet
C9_Witness ==
    /\ ArrangeReturned /\ arr_num_pages = 40 /\ params.signature_size = 5
    /\ calls = << <<0, 5>>, <<20, 5>>, <<40, 0>> >>

\* ------------------------------------------ properties of signature_with
SignatureReturned == pc = "signature_returned"
\* the array the test `signature` builds: pages[dest] = src, slots from sw_start
DestinationArray == [d \in 1..Len(emitted) |-> SourceAt(sw_start + d - 1)]
\* the k-th callback invocation (k from 1) that C4 states: invocation j of sheet i
StatedPlacement(k) ==
    LET i == (k - 1) \div 4
        j == (k - 1) % 4
        end == sw_start + 4 * sw_sheets
        dest == sw_start + 4 * i
    IN  CASE j = 0 -> <<end - 2 * i - 1, dest>>
          [] j = 1 -> <<sw_start + 2 * i, dest + 1>>
          [] j = 2 -> <<sw_start + 2 * i + 1, dest + 2>>
          [] j = 3 -> <<end - 2 * i - 2, dest + 3>>

\* C4 (single-signature ordering): the sheets are processed in increasing order,
\* four callback invocations per sheet, the k-th invocation being the stated one;
\* signature_with(0, 4, ..) yields [15,0,1,14,13,2,3,12,11,4,5,10,9,6,7,8].
C4_SingleSignatureOrdering ==
    /\ Len(emitted) = 4 * sw_i
    /\ \A k \in 1..Len(emitted) : emitted[k] = StatedPlacement(k)
    /\ SignatureReturned => Len(emitted) = 4 * sw_sheets
    /\ (SignatureReturned /\ sw_start = 0 /\ sw_sheets = 4) =>
          DestinationArray = <<15, 0, 1, 14, 13, 2, 3, 12, 11, 4, 5, 10, 9, 6, 7, 8>>

\* the call of the test `signature` has returned with its 16 placements
C4_Witness ==
    /\ SignatureReturned /\ sw_start = 0 /\ sw_sheets = 4
    /\ Len(emitted) = 16 /\ emitted[16] = <<8, 15>>

\* the k-th output slot (k from 1) met when the folded signature is read: slots
\* +1, +2 of sheets 0 .. n-1, then slots +3, +0 of sheets n-1 .. 0
ReadingSlot(k) ==
    IF k <= 2 * sw_sheets
    THEN sw_start + 4 * ((k - 1) \div 2) + 1 + ((k - 1) % 2)
    ELSE LET m == k - 2 * sw_sheets - 1
             sheet == sw_sheets - 1 - (m \div 2)
         IN  sw_start + 4 * sheet + (IF m % 2 = 0 THEN 3 ELSE 0)

\* C5 (fold correctness): reading the folded signature (sheet 0 outermost)
\* yields the source pages start, start+1, ..., start + 4*num_sheets - 1 in order.
C5_FoldCorrectness ==
    SignatureReturned =>
        /\ \A k \in 1..(4 * sw_sheets) : TimesWritten(ReadingSlot(k)) = 1
        /\ \A k \in 1..(4 * sw_sheets) : SourceAt(ReadingSlot(k)) = sw_start + k - 1

\* a signature of several sheets, not starting at 0, read back in order; sheet 0
\* carries its first and its last page
C5_Witness ==
    /\ SignatureReturned /\ sw_start = 4 /\ sw_sheets = 3
    /\ SourceAt(sw_start + 1) = 4 /\ SourceAt(sw_start) = 15
    /\ \A k \in 1..12 : SourceAt(ReadingSlot(k)) = sw_start + k - 1

\* -------------------------------------------------- properties of the driver
\* C8 (as claimed): for a page count n >= 1, the padding step of main appends
\* blank pages only at the end, fewer than 4 of them, and leaves n rounded up to
\* the next multiple of 4 (n itself when n is one) pages.
C8_PadToNextMultipleOf4 ==
    [][(pc = "pad" /\ pc' = "snapshot") =>
          LET before == page_iter(document)
              after == page_iter(document')
              n == Len(before)
          IN  n >= 1 =>
                /\ Len(after) = RoundUp4(n)
                /\ Len(after) - n < 4
                /\ Len(after) >= n /\ SubSeq(after, 1, n) = before
                /\ \A k \in 1..n : document'.objects[before[k]] = document.objects[before[k]]
                /\ \A k \in (n + 1)..Len(after) :
                      "Contents" \notin DOMAIN document'.objects[after[k]]]_vars

\* the document main had when it took the snapshot: every page object as the
\* snapshot holds it
DocAtSnapshot ==
    [document EXCEPT !.objects =
        [id \in DOMAIN @ |->
            IF \E k \in 1..Len(pages) : pages[k].id = id
            THEN pages[CHOOSE k \in 1..Len(pages) : pages[k].id = id].obj
            ELSE @[id]]]
Applied == (1..Len(emitted)) \ pending

\* C10 (order independence): whatever the order in which the placements are
\* applied, no destination slot is written twice, every placement reads the
\* object its source page had before any reordering, every applied placement
\* (src, dest) leaves at page dest the object the snapshot had at src, and the
\* final document is the one the in-order application yields.
C10_OrderIndependence ==
    pc \in {"apply", "done"} =>
        /\ \A d \in DOMAIN writes : writes[d] <= 1
        /\ \A k \in DOMAIN observed :
              observed[k] = DocAtSnapshot.objects[pages[emitted[k][1] + 1].id]
        /\ \A k \in Applied :
              document.objects[pages[emitted[k][2] + 1].id] = pages[emitted[k][1] + 1].obj
        /\ pc = "done" => document = ApplyInOrder(DocAtSnapshot, pages, emitted)

\* a finished run over 8 pages whose placements were applied out of order and
\* moved a page
C10_Witness ==
    /\ pc = "done" /\ reordered /\ Len(pages) = 8 /\ Len(emitted) = 8
    /\ pending = {} /\ document # DocAtSnapshot

====
